---- MODULE Spec2Model ----
(***************************************************************************)
(* Model of the B-rep kernel: ModelManager (the entity store),             *)
(* GeometryAlgorithm::extrude / revolve (sweep synthesis) and the calls    *)
(* a driver can make on one store.                                         *)
(*                                                                         *)
(* Coordinates are integers.  Angles are counted in quarter turns (pi/2),  *)
(* so that rotateZ is computed exactly: cos and sin of a multiple of pi/2  *)
(* are taken as 0, 1 or -1 (floating-point rounding is not modelled).      *)
(***************************************************************************)
EXTENDS Integers, Sequences, FiniteSets, TLC

\* ---------------------------------------------------------------- bounds
MaxId == 4          \* vertex ids a driver passes: 1..MaxId; edge and face ids: 1, MaxId
MaxCoord == 1       \* coordinates of driver-supplied points: 0..MaxCoord
MaxFaceLen == 2     \* longest edge_ids vector a driver passes to addFace
MaxProfile == 3     \* longest profile passed to extrude / revolve
MaxOps == 2         \* number of calls that build one store (one more may audit it)

\* steps of GeometryAlgorithm::revolve
steps == 4

Coord == 0..MaxCoord
\* distance arguments of extrude
Distances == {1, 2}

\* angle arguments of revolve, in quarter turns: no rotation and one whole
\* turn, so that angle / steps is a whole number of quarter turns
Angles == {0, 4}

\* ------------------------------------------------------------ value types
Point3D(id, x, y, z) == [id |-> id, x |-> x, y |-> y, z |-> z]

Edge(start_id, end_id) == [start_id |-> start_id, end_id |-> end_id]

Face(edge_ids) == [edge_ids |-> edge_ids, normal |-> <<0, 0, 0>>]

\* a shared_ptr: NULL for nullptr, Ptr(e) for a pointer to the entity e
NULL == <<>>

Ptr(e) == <<e>>

\* std::unordered_map: a function on the set of its keys
MapPut(m, k, v) == (k :> v) @@ m

\* edge ids a driver passes to addEdge: the first id the sweeps use and the
\* last id of the range
EdgeIds == {1, MaxId}

\* (start_id, end_id) pairs a driver passes to addEdge: a loop on one vertex
\* or an edge to the next vertex id, cyclically, as the sweeps build them,
\* from the first and from the last vertex id
EndPoints ==
    {<<a, a>> : a \in {1, MaxId}} \cup {<<a, (a % MaxId) + 1>> : a \in {1, MaxId}}

\* face ids a driver passes to addFace: the first id the sweeps use and the
\* last id of the range
FaceIds == {1, MaxId}

\* edge_ids vectors a driver passes to addFace: len consecutive ids from
\* first on, as the sweeps build them, starting at the first edge id or at
\* one of the last two (runs from these go past MaxId)
EdgeRun(first, len) == [k \in 1..len |-> first + k - 1]

EdgeRuns ==
    {EdgeRun(first, len) : first \in {1, MaxId - 1, MaxId}, len \in 0..MaxFaceLen}

\* vertex ids a driver passes to addVertex: the first id the sweeps use and
\* the last id of the range
VertexIds == {1, MaxId}

\* points a driver passes to addVertex: the two ends of the coordinate range
\* on the x axis
Points == {Point3D(0, x, 0, 0) : x \in {0, MaxCoord}}

\* profiles a driver passes to extrude / revolve: n points of the plane
\* y = 0, walking the grid of points with x and z in Coord row by row from
\* offset o (profile points carry the default id 0); three consecutive points
\* of the walk are not on one line
Profile(n, o) ==
    [k \in 1..n |-> Point3D(0, (k + o) % (MaxCoord + 1), 0,
                            ((k + o) \div (MaxCoord + 1)) % (MaxCoord + 1))]

\* the walks of every length from offset 0, and the longest one from offset 1
Profiles == {Profile(n, 0) : n \in 0..MaxProfile} \cup {Profile(MaxProfile, 1)}

\* (axis_point, axis_direction) arguments of revolve: the z axis through the
\* origin, and a line along x through (1, 0, 0)
Axes == {<<Point3D(0, 0, 0, 0), <<0, 0, 1>>>>, <<Point3D(0, 1, 0, 0), <<1, 0, 0>>>>}

\* the revolutions a driver asks for: no rotation about the z axis, and a
\* whole turn about the other axis
RevolveArgs ==
    {[axis_point |-> Point3D(0, 0, 0, 0), axis_direction |-> <<0, 0, 1>>, angle |-> 0],
     [axis_point |-> Point3D(0, 1, 0, 0), axis_direction |-> <<1, 0, 0>>, angle |-> 4]}

\* ------------------------------------------------------------------ state
VARIABLES vertex_map, edge_map, face_map, vertices, edges, faces, call, ret, nops

vars == <<vertex_map, edge_map, face_map, vertices, edges, faces, call, ret, nops>>

\* the six members of a ModelManager, as one value
Store == [vertex_map |-> vertex_map, edge_map |-> edge_map, face_map |-> face_map,
          vertices |-> vertices, edges |-> edges, faces |-> faces]

EmptyStore == [vertex_map |-> <<>>, edge_map |-> <<>>, face_map |-> <<>>,
               vertices |-> <<>>, edges |-> <<>>, faces |-> <<>>]

\* ------------------------------------------------------------ ModelManager
getVertex(S, id) == IF id \in DOMAIN S.vertex_map THEN Ptr(S.vertex_map[id]) ELSE NULL

getEdge(S, id) == IF id \in DOMAIN S.edge_map THEN Ptr(S.edge_map[id]) ELSE NULL

getFace(S, id) == IF id \in DOMAIN S.face_map THEN Ptr(S.face_map[id]) ELSE NULL

\* each add operation yields the store after the call and the returned pointer

\* addVertex that registers the vertex under its id but not in the sequence
addVertex_MapOnly(S, id, x, y, z) ==
    IF id \in DOMAIN S.vertex_map
    THEN [store |-> S, ret |-> Ptr(S.vertex_map[id])]
    ELSE LET vertex == Point3D(id, x, y, z)
         IN [store |-> [S EXCEPT !.vertex_map = MapPut(S.vertex_map, id, vertex)],
             ret |-> Ptr(vertex)]

\* addVertex without the lookup of id: an existing vertex is overwritten
addVertex_Overwrite(S, id, x, y, z) ==
    LET vertex == Point3D(id, x, y, z)
    IN [store |-> [S EXCEPT !.vertex_map = MapPut(S.vertex_map, id, vertex),
                            !.vertices = Append(S.vertices, vertex)],
        ret |-> Ptr(vertex)]

addVertex(S, id, x, y, z) ==
    IF id \in DOMAIN S.vertex_map
    THEN [store |-> S, ret |-> Ptr(S.vertex_map[id])]
    ELSE LET vertex == Point3D(id, x, y, z)
         IN [store |-> [S EXCEPT !.vertex_map = MapPut(S.vertex_map, id, vertex),
                                 !.vertices = Append(S.vertices, vertex)],
             ret |-> Ptr(vertex)]

\* addEdge that checks start_id only
addEdge_StartOnly(S, id, start_id, end_id) ==
    IF id \in DOMAIN S.edge_map
    THEN [store |-> S, ret |-> Ptr(S.edge_map[id])]
    ELSE IF getVertex(S, start_id) = NULL
    THEN [store |-> S, ret |-> NULL]
    ELSE LET edge == Edge(start_id, end_id)
         IN [store |-> [S EXCEPT !.edge_map = MapPut(S.edge_map, id, edge),
                                 !.edges = Append(S.edges, edge)],
             ret |-> Ptr(edge)]

\* addEdge that registers the edge in edge_map before it checks the vertices
addEdge_Partial(S, id, start_id, end_id) ==
    IF id \in DOMAIN S.edge_map
    THEN [store |-> S, ret |-> Ptr(S.edge_map[id])]
    ELSE LET edge == Edge(start_id, end_id)
             T == [S EXCEPT !.edge_map = MapPut(S.edge_map, id, edge)]
         IN IF getVertex(S, start_id) = NULL \/ getVertex(S, end_id) = NULL
            THEN [store |-> T, ret |-> NULL]
            ELSE [store |-> [T EXCEPT !.edges = Append(S.edges, edge)], ret |-> Ptr(edge)]

addEdge(S, id, start_id, end_id) ==
    IF id \in DOMAIN S.edge_map
    THEN [store |-> S, ret |-> Ptr(S.edge_map[id])]
    ELSE IF getVertex(S, start_id) = NULL \/ getVertex(S, end_id) = NULL
    THEN [store |-> S, ret |-> NULL]
    ELSE LET edge == Edge(start_id, end_id)
         IN [store |-> [S EXCEPT !.edge_map = MapPut(S.edge_map, id, edge),
                                 !.edges = Append(S.edges, edge)],
             ret |-> Ptr(edge)]

\* addFace that puts the new face at the head of the iteration sequence
addFace_Front(S, id, edge_ids) ==
    IF id \in DOMAIN S.face_map
    THEN [store |-> S, ret |-> Ptr(S.face_map[id])]
    ELSE IF \E k \in 1..Len(edge_ids) : getEdge(S, edge_ids[k]) = NULL
    THEN [store |-> S, ret |-> NULL]
    ELSE LET face == Face(edge_ids)
         IN [store |-> [S EXCEPT !.face_map = MapPut(S.face_map, id, face),
                                 !.faces = <<face>> \o S.faces],
             ret |-> Ptr(face)]

\* addFace that checks the first edge id only
addFace_FirstOnly(S, id, edge_ids) ==
    IF id \in DOMAIN S.face_map
    THEN [store |-> S, ret |-> Ptr(S.face_map[id])]
    ELSE IF Len(edge_ids) > 0 /\ getEdge(S, edge_ids[1]) = NULL
    THEN [store |-> S, ret |-> NULL]
    ELSE LET face == Face(edge_ids)
         IN [store |-> [S EXCEPT !.face_map = MapPut(S.face_map, id, face),
                                 !.faces = Append(S.faces, face)],
             ret |-> Ptr(face)]

addFace(S, id, edge_ids) ==
    IF id \in DOMAIN S.face_map
    THEN [store |-> S, ret |-> Ptr(S.face_map[id])]
    ELSE IF \E k \in 1..Len(edge_ids) : getEdge(S, edge_ids[k]) = NULL
    THEN [store |-> S, ret |-> NULL]
    ELSE LET face == Face(edge_ids)
         IN [store |-> [S EXCEPT !.face_map = MapPut(S.face_map, id, face),
                                 !.faces = Append(S.faces, face)],
             ret |-> Ptr(face)]

\* ------------------------------------------------------- GeometryAlgorithm
\* cos and sin of q quarter turns
Cos4(q) == CASE q % 4 = 0 -> 1 [] q % 4 = 1 -> 0 [] q % 4 = 2 -> -1 [] OTHER -> 0

Sin4(q) == CASE q % 4 = 0 -> 0 [] q % 4 = 1 -> 1 [] q % 4 = 2 -> 0 [] OTHER -> -1

\* rotation about the Z axis by angle quarter turns
rotateZ(point, angle) ==
    LET cos_theta == Cos4(angle)
        sin_theta == Sin4(angle)
    IN Point3D(point.id,
               point.x * cos_theta - point.y * sin_theta,
               point.x * sin_theta + point.y * cos_theta,
               point.z)

\* The loops of extrude.  A loop is a recursion on its state st: the store
\* S, the loop index i and, where the code keeps one, the running edge_id or
\* face_id.  vertex_count = Len(pv) = n and base_id = 1.
RECURSIVE extrudeBaseVertices(_, _)
extrudeBaseVertices(st, pv) ==
    IF st.i >= Len(pv) THEN st.S
    ELSE LET v == pv[st.i + 1]
         IN extrudeBaseVertices([S |-> addVertex(st.S, 1 + st.i, v.x, v.y, v.z).store,
                                 i |-> st.i + 1], pv)

\* top vertex loop that numbers its vertices after those already stored
RECURSIVE extrudeTopVertices_Append(_, _, _)
extrudeTopVertices_Append(st, pv, distance) ==
    IF st.i >= Len(pv) THEN st.S
    ELSE LET v == pv[st.i + 1]
         IN extrudeTopVertices_Append([S |-> addVertex(st.S, 1 + Len(st.S.vertices),
                                                       v.x, v.y, v.z + distance).store,
                                       i |-> st.i + 1], pv, distance)

RECURSIVE extrudeTopVertices(_, _, _)
extrudeTopVertices(st, pv, distance) ==
    IF st.i >= Len(pv) THEN st.S
    ELSE LET v == pv[st.i + 1]
         IN extrudeTopVertices([S |-> addVertex(st.S, 1 + Len(pv) + st.i,
                                                v.x, v.y, v.z + distance).store,
                                i |-> st.i + 1], pv, distance)

\* the three edge loops share edge_id; each yields its final state
\* base ring left open: the closing edge from the last vertex to the first
\* is not inserted
RECURSIVE extrudeBaseEdges_Open(_, _)
extrudeBaseEdges_Open(st, n) ==
    IF st.i >= n THEN st
    ELSE LET next == (st.i + 1) % n
             T == IF next = 0 THEN st.S
                  ELSE addEdge(st.S, st.edge_id, 1 + st.i, 1 + next).store
         IN extrudeBaseEdges_Open([S |-> T, i |-> st.i + 1, edge_id |-> st.edge_id + 1], n)

RECURSIVE extrudeBaseEdges(_, _)
extrudeBaseEdges(st, n) ==
    IF st.i >= n THEN st
    ELSE LET next == (st.i + 1) % n
         IN extrudeBaseEdges([S |-> addEdge(st.S, st.edge_id, 1 + st.i, 1 + next).store,
                              i |-> st.i + 1, edge_id |-> st.edge_id + 1], n)

RECURSIVE extrudeTopEdges(_, _)
extrudeTopEdges(st, n) ==
    IF st.i >= n THEN st
    ELSE LET next == (st.i + 1) % n
         IN extrudeTopEdges([S |-> addEdge(st.S, st.edge_id, 1 + n + st.i, 1 + n + next).store,
                             i |-> st.i + 1, edge_id |-> st.edge_id + 1], n)

RECURSIVE extrudeVerticalEdges(_, _)
extrudeVerticalEdges(st, n) ==
    IF st.i >= n THEN st
    ELSE extrudeVerticalEdges([S |-> addEdge(st.S, st.edge_id, 1 + st.i, 1 + n + st.i).store,
                               i |-> st.i + 1, edge_id |-> st.edge_id + 1], n)

\* side_edges with the top ring edge taken at index i
extrudeSideEdges_TopAtI(n, i) ==
    <<n * 2 + 1 + i, n + 1 + i, n * 2 + 1 + ((i + 1) % n), i + 1>>

\* the edge_ids vector of side face i
extrudeSideEdges(n, i) ==
    <<n * 2 + 1 + i, n + 1 + ((i + 1) % n), n * 2 + 1 + ((i + 1) % n), i + 1>>

RECURSIVE extrudeSideFaces(_, _)
extrudeSideFaces(st, n) ==
    IF st.i >= n THEN st.S
    ELSE extrudeSideFaces([S |-> addFace(st.S, st.face_id, extrudeSideEdges(n, st.i)).store,
                           i |-> st.i + 1, face_id |-> st.face_id + 1], n)

\* extrude that reports failure when the store holds an entity it inserts
extrude_Propagate(S, profile_vertices, distance) ==
    IF Len(profile_vertices) = 0 \/ 1 \in DOMAIN S.vertex_map
    THEN [store |-> S, ret |-> FALSE]
    ELSE LET n == Len(profile_vertices)
             S1 == extrudeBaseVertices([S |-> S, i |-> 0], profile_vertices)
             S2 == extrudeTopVertices([S |-> S1, i |-> 0], profile_vertices, distance)
             e1 == extrudeBaseEdges([S |-> S2, i |-> 0, edge_id |-> 1], n)
             e2 == extrudeTopEdges([e1 EXCEPT !.i = 0], n)
             e3 == extrudeVerticalEdges([e2 EXCEPT !.i = 0], n)
             base_edges == [k \in 1..n |-> k]
             top_edges == [k \in 1..n |-> n + k]
             S6 == addFace(e3.S, 1, base_edges).store
             S7 == addFace(S6, 2, top_edges).store
             S8 == extrudeSideFaces([S |-> S7, i |-> 0, face_id |-> 3], n)
         IN [store |-> S8, ret |-> TRUE]

extrude(S, profile_vertices, distance) ==
    IF Len(profile_vertices) = 0
    THEN [store |-> S, ret |-> FALSE]
    ELSE LET n == Len(profile_vertices)
             S1 == extrudeBaseVertices([S |-> S, i |-> 0], profile_vertices)
             S2 == extrudeTopVertices([S |-> S1, i |-> 0], profile_vertices, distance)
             e1 == extrudeBaseEdges([S |-> S2, i |-> 0, edge_id |-> 1], n)
             e2 == extrudeTopEdges([e1 EXCEPT !.i = 0], n)
             e3 == extrudeVerticalEdges([e2 EXCEPT !.i = 0], n)
             base_edges == [k \in 1..n |-> k]
             top_edges == [k \in 1..n |-> n + k]
             S6 == addFace(e3.S, 1, base_edges).store
             S7 == addFace(S6, 2, top_edges).store
             S8 == extrudeSideFaces([S |-> S7, i |-> 0, face_id |-> 3], n)
         IN [store |-> S8, ret |-> TRUE]

\* The loops of revolve: nested loops over step and i.  NextInner advances
\* the indices of a loop whose inner index is i (0..n-1), NextOuter those of
\* a loop whose inner index is step (0..steps-1).
NextInner(st, n) ==
    IF st.i + 1 < n THEN [step |-> st.step, i |-> st.i + 1]
    ELSE [step |-> st.step + 1, i |-> 0]

NextOuter(st) ==
    IF st.step + 1 < steps THEN [step |-> st.step + 1, i |-> st.i]
    ELSE [step |-> 0, i |-> st.i + 1]

\* vertex loop that welds: a ring that coincides with the first ring (a whole
\* number of turns) gets no vertices of its own
RECURSIVE revolveVertices_Weld(_, _, _)
revolveVertices_Weld(st, pv, step_angle) ==
    IF st.step > steps THEN st.S
    ELSE LET n == Len(pv)
             current_angle == step_angle * st.step
             rotated == rotateZ(pv[st.i + 1], current_angle)
             nx == NextInner(st, n)
             T == IF st.step > 0 /\ current_angle % 4 = 0 THEN st.S
                  ELSE addVertex(st.S, 1 + st.step * n + st.i,
                                 rotated.x, rotated.y, rotated.z).store
         IN revolveVertices_Weld([S |-> T, step |-> nx.step, i |-> nx.i], pv, step_angle)

RECURSIVE revolveVertices(_, _, _)
revolveVertices(st, pv, step_angle) ==
    IF st.step > steps THEN st.S
    ELSE LET n == Len(pv)
             current_angle == step_angle * st.step
             rotated == rotateZ(pv[st.i + 1], current_angle)
             nx == NextInner(st, n)
         IN revolveVertices([S |-> addVertex(st.S, 1 + st.step * n + st.i,
                                             rotated.x, rotated.y, rotated.z).store,
                             step |-> nx.step, i |-> nx.i], pv, step_angle)

\* profile edges of every ring
RECURSIVE revolveRingEdges(_, _)
revolveRingEdges(st, n) ==
    IF st.step > steps THEN st
    ELSE LET next == (st.i + 1) % n
             nx == NextInner(st, n)
         IN revolveRingEdges([S |-> addEdge(st.S, st.edge_id, 1 + st.step * n + st.i,
                                            1 + st.step * n + next).store,
                              step |-> nx.step, i |-> nx.i, edge_id |-> st.edge_id + 1], n)

\* edges along the rotation, between corresponding vertices of rings step, step+1
RECURSIVE revolveStepEdges(_, _)
revolveStepEdges(st, n) ==
    IF st.i >= n THEN st
    ELSE LET nx == NextOuter(st)
         IN revolveStepEdges([S |-> addEdge(st.S, st.edge_id, 1 + st.step * n + st.i,
                                            1 + (st.step + 1) * n + st.i).store,
                              step |-> nx.step, i |-> nx.i, edge_id |-> st.edge_id + 1], n)

\* the edge_ids vector of the side face of (step, i)
revolveSideEdges(n, step, i) ==
    LET base == step * n + 1
        next_base == (step + 1) * n + 1
    IN <<base + i, base + ((i + 1) % n), next_base + ((i + 1) % n), next_base + i>>

RECURSIVE revolveSideFaces(_, _)
revolveSideFaces(st, n) ==
    IF st.step >= steps THEN st.S
    ELSE LET nx == NextInner(st, n)
         IN revolveSideFaces([S |-> addFace(st.S, st.face_id,
                                            revolveSideEdges(n, st.step, st.i)).store,
                              step |-> nx.step, i |-> nx.i, face_id |-> st.face_id + 1], n)

revolve(S, profile_vertices, axis_point, axis_direction, angle) ==
    IF Len(profile_vertices) = 0
    THEN [store |-> S, ret |-> FALSE]
    ELSE LET n == Len(profile_vertices)
             step_angle == angle \div steps
             S1 == revolveVertices([S |-> S, step |-> 0, i |-> 0], profile_vertices, step_angle)
             e1 == revolveRingEdges([S |-> S1, step |-> 0, i |-> 0, edge_id |-> 1], n)
             e2 == revolveStepEdges([e1 EXCEPT !.step = 0, !.i = 0], n)
             end_edges == [k \in 1..n |-> k]
             S4 == addFace(e2.S, 1, end_edges).store
             S5 == revolveSideFaces([S |-> S4, step |-> 0, i |-> 0, face_id |-> 2], n)
         IN [store |-> S5, ret |-> TRUE]

\* calculateFaceNormal.  A normal is [n |-> <<a, b, c>>, div2 |-> d]: the
\* vector (a, b, c) / sqrt(d).  Vertex coordinates are integers, so the cross
\* product is an integer vector whose length is 0 or at least 1: it is
\* normalized (d = its squared length) exactly when it is not the zero vector.
DefaultNormal == [n |-> <<0, 0, 1>>, div2 |-> 1]

calculateFaceNormal(face, S) ==
    IF Len(face.edge_ids) < 3 THEN DefaultNormal
    ELSE LET edge1 == getEdge(S, face.edge_ids[1])
             edge2 == getEdge(S, face.edge_ids[2])
         IN IF edge1 = NULL \/ edge2 = NULL THEN DefaultNormal
            ELSE LET v1 == getVertex(S, edge1[1].start_id)
                     v2 == getVertex(S, edge1[1].end_id)
                     v3 == getVertex(S, edge2[1].end_id)
                 IN IF v1 = NULL \/ v2 = NULL \/ v3 = NULL THEN DefaultNormal
                    ELSE LET v1v2 == <<v2[1].x - v1[1].x, v2[1].y - v1[1].y, v2[1].z - v1[1].z>>
                             v1v3 == <<v3[1].x - v1[1].x, v3[1].y - v1[1].y, v3[1].z - v1[1].z>>
                             c == <<v1v2[2] * v1v3[3] - v1v2[3] * v1v3[2],
                                    v1v2[3] * v1v3[1] - v1v2[1] * v1v3[3],
                                    v1v2[1] * v1v3[2] - v1v2[2] * v1v3[1]>>
                             length2 == c[1] * c[1] + c[2] * c[2] + c[3] * c[3]
                         IN IF length2 > 0 THEN [n |-> c, div2 |-> length2]
                            ELSE [n |-> c, div2 |-> 1]

\* the dot product of two normals, times sqrt(a.div2 * b.div2) > 0: it has
\* the sign of the dot product
DotNum(a, b) == a.n[1] * b.n[1] + a.n[2] * b.n[2] + a.n[3] * b.n[3]

\* -------------------------------------------------------- TopologyChecker
\* std::to_string of an integer, as the sequence of its characters
RECURSIVE Digits(_)
Digits(n) ==
    LET d == <<"0", "1", "2", "3", "4", "5", "6", "7", "8", "9">>[(n % 10) + 1]
    IN IF n < 10 THEN <<d>> ELSE Append(Digits(n \div 10), d)

to_string(n) == IF n < 0 THEN <<"-">> \o Digits(0 - n) ELSE Digits(n)

min(a, b) == IF a < b THEN a ELSE b

max(a, b) == IF a > b THEN a ELSE b

\* signature of an edge: "<min>-<max>" of its endpoint ids
EdgeSignature(edge) ==
    LET min_id == min(edge.start_id, edge.end_id)
        max_id == max(edge.start_id, edge.end_id)
    IN to_string(min_id) \o <<"-">> \o to_string(max_id)

\* std::sort of a vector of ints (ascending)
RECURSIVE SortInsert(_, _)
SortInsert(sorted, x) ==
    IF Len(sorted) = 0 THEN <<x>>
    ELSE IF x < sorted[1] THEN <<x>> \o sorted
    ELSE <<sorted[1]>> \o SortInsert(Tail(sorted), x)

RECURSIVE Sort(_)
Sort(v) == IF Len(v) = 0 THEN <<>> ELSE SortInsert(Sort(Tail(v)), v[1])

\* signature of a face: its sorted edge ids, each followed by ","
RECURSIVE FaceSignatureOf(_)
FaceSignatureOf(sorted_edges) ==
    IF Len(sorted_edges) = 0 THEN <<>>
    ELSE to_string(sorted_edges[1]) \o <<",">> \o FaceSignatureOf(Tail(sorted_edges))

FaceSignature(face) == FaceSignatureOf(Sort(face.edge_ids))

\* loop of detectDuplicateEdges recording end_id
RECURSIVE duplicateEdgesLoop_EndId(_, _)
duplicateEdgesLoop_EndId(st, S) ==
    IF st.i >= Len(S.edges) THEN st.duplicate_edges
    ELSE LET edge == S.edges[st.i + 1]
             signature == EdgeSignature(edge)
         IN IF signature \in st.edge_signatures
            THEN duplicateEdgesLoop_EndId(
                     [i |-> st.i + 1, edge_signatures |-> st.edge_signatures,
                      duplicate_edges |-> Append(st.duplicate_edges, edge.end_id)], S)
            ELSE duplicateEdgesLoop_EndId(
                     [i |-> st.i + 1, edge_signatures |-> st.edge_signatures \cup {signature},
                      duplicate_edges |-> st.duplicate_edges], S)

\* loop of detectDuplicateEdges over edges[i]
RECURSIVE duplicateEdgesLoop(_, _)
duplicateEdgesLoop(st, S) ==
    IF st.i >= Len(S.edges) THEN st.duplicate_edges
    ELSE LET edge == S.edges[st.i + 1]
             signature == EdgeSignature(edge)
         IN IF signature \in st.edge_signatures
            THEN duplicateEdgesLoop(
                     [i |-> st.i + 1, edge_signatures |-> st.edge_signatures,
                      duplicate_edges |-> Append(st.duplicate_edges, edge.start_id)], S)
            ELSE duplicateEdgesLoop(
                     [i |-> st.i + 1, edge_signatures |-> st.edge_signatures \cup {signature},
                      duplicate_edges |-> st.duplicate_edges], S)

detectDuplicateEdges(S) ==
    duplicateEdgesLoop([i |-> 0, edge_signatures |-> {}, duplicate_edges |-> <<>>], S)

\* loop of detectDuplicateFaces over faces[i]
RECURSIVE duplicateFacesLoop(_, _)
duplicateFacesLoop(st, S) ==
    IF st.i >= Len(S.faces) THEN st.duplicate_faces
    ELSE LET signature == FaceSignature(S.faces[st.i + 1])
         IN IF signature \in st.face_signatures
            THEN duplicateFacesLoop(
                     [i |-> st.i + 1, face_signatures |-> st.face_signatures,
                      duplicate_faces |-> Append(st.duplicate_faces, st.i + 1)], S)
            ELSE duplicateFacesLoop(
                     [i |-> st.i + 1, face_signatures |-> st.face_signatures \cup {signature},
                      duplicate_faces |-> st.duplicate_faces], S)

detectDuplicateFaces(S) ==
    duplicateFacesLoop([i |-> 0, face_signatures |-> {}, duplicate_faces |-> <<>>], S)

\* Loop of detectNormalInconsistencies over faces[i], i >= 1.  st.normal is
\* the static array normal[3] of calculateFaceNormal: every call writes it and
\* returns its address, so ref_normal and current_normal both point to it and
\* both read what the last call wrote.
RECURSIVE normalLoop(_, _)
normalLoop(st, S) ==
    IF st.i >= Len(S.faces) THEN st.inconsistent_faces
    ELSE LET face == S.faces[st.i + 1]
         IN IF Len(face.edge_ids) = 0
            THEN normalLoop([st EXCEPT !.i = st.i + 1], S)
            ELSE LET normal == calculateFaceNormal(face, S)
                     ref_normal == normal
                     current_normal == normal
                     dot_product == DotNum(ref_normal, current_normal)
                 IN normalLoop(
                        [i |-> st.i + 1, normal |-> normal,
                         inconsistent_faces |->
                            IF dot_product < 0
                            THEN Append(st.inconsistent_faces, st.i + 1)
                            ELSE st.inconsistent_faces], S)

detectNormalInconsistencies(S) ==
    IF Len(S.faces) = 0 THEN <<>>
    ELSE IF Len(S.faces[1].edge_ids) = 0 THEN <<>>
    ELSE normalLoop([i |-> 1, normal |-> calculateFaceNormal(S.faces[1], S),
                     inconsistent_faces |-> <<>>], S)

\* detectAllTopologyErrors that keeps the outcome of the last analysis only
detectAllTopologyErrors_LastOnly(S) ==
    LET duplicate_edges == detectDuplicateEdges(S)
        duplicate_faces == detectDuplicateFaces(S)
        inconsistent_faces == detectNormalInconsistencies(S)
    IN inconsistent_faces # <<>>

detectAllTopologyErrors(S) ==
    LET duplicate_edges == detectDuplicateEdges(S)
        h1 == IF duplicate_edges # <<>> THEN TRUE ELSE FALSE
        duplicate_faces == detectDuplicateFaces(S)
        h2 == IF duplicate_faces # <<>> THEN TRUE ELSE h1
        inconsistent_faces == detectNormalInconsistencies(S)
        has_errors == IF inconsistent_faces # <<>> THEN TRUE ELSE h2
    IN has_errors

\* ---------------------------------------------------------------- actions
SetStore(S) ==
    /\ vertex_map' = S.vertex_map
    /\ edge_map' = S.edge_map
    /\ face_map' = S.face_map
    /\ vertices' = S.vertices
    /\ edges' = S.edges
    /\ faces' = S.faces

Init ==
    /\ vertex_map = <<>>
    /\ edge_map = <<>>
    /\ face_map = <<>>
    /\ vertices = <<>>
    /\ edges = <<>>
    /\ faces = <<>>
    /\ call = [op |-> "none"]
    /\ ret = NULL
    /\ nops = 0

AddVertex ==
    /\ nops < MaxOps
    /\ \E id \in VertexIds, p \in Points :
          LET r == addVertex(Store, id, p.x, p.y, p.z)
          IN /\ SetStore(r.store)
             /\ ret' = r.ret
             /\ call' = [op |-> "addVertex", id |-> id, x |-> p.x, y |-> p.y, z |-> p.z]
    /\ nops' = nops + 1

AddEdge ==
    /\ nops < MaxOps
    /\ \E id \in EdgeIds, ends \in EndPoints :
          LET r == addEdge(Store, id, ends[1], ends[2])
          IN /\ SetStore(r.store)
             /\ ret' = r.ret
             /\ call' = [op |-> "addEdge", id |-> id, start_id |-> ends[1], end_id |-> ends[2]]
    /\ nops' = nops + 1

AddFace ==
    /\ nops < MaxOps
    /\ \E id \in FaceIds, edge_ids \in EdgeRuns :
          LET r == addFace(Store, id, edge_ids)
          IN /\ SetStore(r.store)
             /\ ret' = r.ret
             /\ call' = [op |-> "addFace", id |-> id, edge_ids |-> edge_ids]
    /\ nops' = nops + 1

Extrude ==
    /\ nops < MaxOps
    /\ \E profile \in Profiles, distance \in Distances :
          LET r == extrude(Store, profile, distance)
          IN /\ SetStore(r.store)
             /\ ret' = r.ret
             /\ call' = [op |-> "extrude", profile |-> profile, distance |-> distance]
    /\ nops' = nops + 1

Revolve ==
    /\ nops < MaxOps
    /\ \E profile \in Profiles, args \in RevolveArgs :
          LET r == revolve(Store, profile, args.axis_point, args.axis_direction, args.angle)
          IN /\ SetStore(r.store)
             /\ ret' = r.ret
             /\ call' = [op |-> "revolve", profile |-> profile,
                         axis_point |-> args.axis_point,
                         axis_direction |-> args.axis_direction, angle |-> args.angle]
    /\ nops' = nops + 1

\* the analyses of TopologyChecker read the store and change nothing in it
DetectDuplicateEdges ==
    /\ nops <= MaxOps
    /\ ret' = detectDuplicateEdges(Store)
    /\ call' = [op |-> "detectDuplicateEdges"]
    /\ nops' = nops + 1
    /\ UNCHANGED <<vertex_map, edge_map, face_map, vertices, edges, faces>>

DetectDuplicateFaces ==
    /\ nops <= MaxOps
    /\ ret' = detectDuplicateFaces(Store)
    /\ call' = [op |-> "detectDuplicateFaces"]
    /\ nops' = nops + 1
    /\ UNCHANGED <<vertex_map, edge_map, face_map, vertices, edges, faces>>

DetectNormalInconsistencies ==
    /\ nops <= MaxOps
    /\ ret' = detectNormalInconsistencies(Store)
    /\ call' = [op |-> "detectNormalInconsistencies"]
    /\ nops' = nops + 1
    /\ UNCHANGED <<vertex_map, edge_map, face_map, vertices, edges, faces>>

DetectAllTopologyErrors ==
    /\ nops <= MaxOps
    /\ ret' = detectAllTopologyErrors(Store)
    /\ call' = [op |-> "detectAllTopologyErrors"]
    /\ nops' = nops + 1
    /\ UNCHANGED <<vertex_map, edge_map, face_map, vertices, edges, faces>>

Next ==
    \/ AddVertex \/ AddEdge \/ AddFace \/ Extrude \/ Revolve
    \/ DetectDuplicateEdges \/ DetectDuplicateFaces
    \/ DetectNormalInconsistencies \/ DetectAllTopologyErrors

Spec == Init /\ [][Next]_vars

\* ----------------------------------------------------------------- claims
storeVars == <<vertex_map, edge_map, face_map, vertices, edges, faces>>

\* C1, as stated: addEdge returns the not-found sentinel if and only if at
\* least one of start_id, end_id is not the id of a vertex in the store at
\* call time.
C1_AsStated ==
    [][call'.op = "addEdge" =>
          ((ret' = NULL) <=> (call'.start_id \notin DOMAIN vertex_map
                              \/ call'.end_id \notin DOMAIN vertex_map))]_vars

\* C1, amended: addEdge returns the not-found sentinel if and only if id is
\* not already the id of an edge in the store and at least one of start_id,
\* end_id is not the id of a vertex in the store at call time.
C1_AddEdgeNotFound ==
    [][call'.op = "addEdge" =>
          ((ret' = NULL) <=> (/\ call'.id \notin DOMAIN edge_map
                              /\ (call'.start_id \notin DOMAIN vertex_map
                                  \/ call'.end_id \notin DOMAIN vertex_map)))]_vars

\* addEdge was refused although its start vertex exists (the end vertex does not)
C1_Witness ==
    /\ call.op = "addEdge"
    /\ ret = NULL
    /\ call.start_id \in DOMAIN vertex_map
    /\ call.end_id \notin DOMAIN vertex_map

\* C2, as stated: addFace returns the not-found sentinel if and only if at
\* least one id in edge_ids is not the id of an edge in the store at call time.
C2_AsStated ==
    [][call'.op = "addFace" =>
          ((ret' = NULL) <=> (\E k \in 1..Len(call'.edge_ids) :
                                  call'.edge_ids[k] \notin DOMAIN edge_map))]_vars

\* C2, amended: addFace returns the not-found sentinel if and only if id is
\* not already the id of a face in the store and at least one id in edge_ids
\* is not the id of an edge in the store at call time.
C2_AddFaceNotFound ==
    [][call'.op = "addFace" =>
          ((ret' = NULL) <=> (/\ call'.id \notin DOMAIN face_map
                              /\ \E k \in 1..Len(call'.edge_ids) :
                                    call'.edge_ids[k] \notin DOMAIN edge_map))]_vars

\* addFace was refused although the first edge it lists exists (a later one does not)
C2_Witness ==
    /\ call.op = "addFace"
    /\ ret = NULL
    /\ Len(call.edge_ids) = 2
    /\ call.edge_ids[1] \in DOMAIN edge_map
    /\ call.edge_ids[2] \notin DOMAIN edge_map

\* C3: addVertex, addEdge or addFace with an id already present for that
\* kind returns the pre-existing entity and leaves the whole store unchanged
\* (the entity keeps its fields, no map or sequence gains an element).
C3_DuplicateIdIsNoOp ==
    [][/\ (call'.op = "addVertex" /\ call'.id \in DOMAIN vertex_map)
            => (ret' = Ptr(vertex_map[call'.id]) /\ UNCHANGED storeVars)
       /\ (call'.op = "addEdge" /\ call'.id \in DOMAIN edge_map)
            => (ret' = Ptr(edge_map[call'.id]) /\ UNCHANGED storeVars)
       /\ (call'.op = "addFace" /\ call'.id \in DOMAIN face_map)
            => (ret' = Ptr(face_map[call'.id]) /\ UNCHANGED storeVars)]_vars

\* addVertex was called with a stored id and another x than the stored one
C3_Witness ==
    /\ call.op = "addVertex"
    /\ call.id \in DOMAIN vertex_map
    /\ vertex_map[call.id].x # call.x
    /\ ret = Ptr(vertex_map[call.id])

\* C4: whenever addEdge or addFace returns the not-found sentinel the store
\* is as it was before the call, and getEdge(id) / getFace(id) for the
\* refused id returns not-found afterwards.
C4_RefusalLeavesStore ==
    [][/\ (call'.op = "addEdge" /\ ret' = NULL)
            => (UNCHANGED storeVars /\ getEdge(Store', call'.id) = NULL)
       /\ (call'.op = "addFace" /\ ret' = NULL)
            => (UNCHANGED storeVars /\ getFace(Store', call'.id) = NULL)]_vars

\* addEdge was refused on a store that holds vertices
C4_Witness ==
    /\ call.op = "addEdge"
    /\ ret = NULL
    /\ Len(vertices) > 0
    /\ getEdge(Store, call.id) = NULL

\* the last call was the first one made on the store, that is, on the empty
\* store the constructor leaves
FirstCall(op) == nops = 1 /\ call.op = op

\* C5: extrude applied to an empty store with a profile of n >= 1 points
\* leaves exactly 2n vertices, 3n edges and n+2 faces, in the id maps and in
\* the iteration sequences, for every n (n = 1 and n = 2 included).
C5_ExtrudeCounts ==
    (FirstCall("extrude") /\ Len(call.profile) >= 1) =>
        LET n == Len(call.profile)
        IN /\ Len(vertices) = 2 * n
           /\ Cardinality(DOMAIN vertex_map) = 2 * n
           /\ Len(edges) = 3 * n
           /\ Cardinality(DOMAIN edge_map) = 3 * n
           /\ Len(faces) = n + 2
           /\ Cardinality(DOMAIN face_map) = n + 2

\* extrude has run on the empty store with a 2-point profile
C5_Witness ==
    /\ FirstCall("extrude")
    /\ Len(call.profile) = 2
    /\ Len(vertices) = 4
    /\ Len(edges) = 6
    /\ Len(faces) = 4

\* C6: after extrude on an empty store with an n-point profile, face 1
\* lists edge ids 1..n in order, face 2 lists n+1..2n in order, and face 3+i
\* (i in 0..n-1) lists, in this order, edge 2n+1+i, edge n+1+((i+1) mod n),
\* edge 2n+1+((i+1) mod n) and edge i+1.
C6_ExtrudeFaces ==
    (FirstCall("extrude") /\ Len(call.profile) >= 1) =>
        LET n == Len(call.profile)
        IN /\ 1 \in DOMAIN face_map
           /\ face_map[1].edge_ids = [k \in 1..n |-> k]
           /\ 2 \in DOMAIN face_map
           /\ face_map[2].edge_ids = [k \in 1..n |-> n + k]
           /\ \A i \in 0..(n - 1) :
                 /\ (3 + i) \in DOMAIN face_map
                 /\ face_map[3 + i].edge_ids =
                       <<2 * n + 1 + i, n + 1 + ((i + 1) % n),
                         2 * n + 1 + ((i + 1) % n), i + 1>>

\* extrude has run on the empty store with a 3-point profile; its last side
\* face wraps around to the first top-ring and vertical edges
C6_Witness ==
    /\ FirstCall("extrude")
    /\ Len(call.profile) = 3
    /\ 5 \in DOMAIN face_map
    /\ face_map[5].edge_ids = <<9, 4, 7, 3>>

\* C7: extrude and revolve return false if and only if the profile is
\* empty, and then leave the store unchanged; for every non-empty profile
\* they return true whatever the store held before.
C7_SweepResult ==
    [][call'.op \in {"extrude", "revolve"} =>
          /\ (ret' = FALSE) <=> (Len(call'.profile) = 0)
          /\ (ret' = FALSE) => UNCHANGED storeVars
          /\ (Len(call'.profile) >= 1) => (ret' = TRUE)]_vars

\* extrude returned true on a store in which vertex 1 existed already, with
\* another x than the first profile point has
C7_Witness ==
    /\ nops = 2
    /\ call.op = "extrude"
    /\ ret = TRUE
    /\ Len(call.profile) >= 1
    /\ vertex_map[1].x # call.profile[1].x

\* C8: if extrude has populated an empty store from an n-point profile, a
\* second extrude with an m-point profile, 1 <= m <= n, adds no vertex, edge
\* or face, changes no stored entity, and returns true.
C8_SecondExtrudeReuses ==
    [][(/\ FirstCall("extrude")
        /\ call'.op = "extrude"
        /\ 1 <= Len(call'.profile)
        /\ Len(call'.profile) <= Len(call.profile))
          => (UNCHANGED storeVars /\ ret' = TRUE)]_vars

\* a 1-point extrude has run on the store a 2-point extrude populated; the
\* stored top vertex 2 is neither the base point nor the top point of the
\* second profile
C8_Witness ==
    /\ nops = 2
    /\ call.op = "extrude"
    /\ ret = TRUE
    /\ Len(call.profile) = 1
    /\ Len(vertices) = 4 /\ Len(edges) = 6 /\ Len(faces) = 4
    /\ edge_map[1] = Edge(1, 2)
    /\ vertex_map[2].z # call.profile[1].z + call.distance

\* ids of the vertices and all references of a store: everything but the
\* coordinates
Topology(S) ==
    [vertex_ids |-> [k \in 1..Len(S.vertices) |-> S.vertices[k].id],
     vertex_keys |-> DOMAIN S.vertex_map,
     edge_map |-> S.edge_map, edges |-> S.edges,
     face_map |-> S.face_map, faces |-> S.faces]

\* C9: revolve applied to an empty store with an n-point profile (n >= 1)
\* produces exactly 5n vertices with ids 1..5n, ring s (s in 0..4) holding
\* ids s*n+1..s*n+n (the profile rotated by s step angles), and the ids and
\* references of all it creates are those it creates for any other
\* axis_point, axis_direction and angle.
C9_RevolveRings ==
    (FirstCall("revolve") /\ Len(call.profile) >= 1) =>
        LET n == Len(call.profile)
        IN /\ Len(vertices) = 5 * n
           /\ DOMAIN vertex_map = 1..(5 * n)
           /\ \A s \in 0..4 : \A i \in 0..(n - 1) :
                 LET id == s * n + i + 1
                     rotated == rotateZ(call.profile[i + 1], (call.angle \div 4) * s)
                 IN /\ vertices[id] = Point3D(id, rotated.x, rotated.y, rotated.z)
                    /\ vertex_map[id] = vertices[id]
           /\ \A axis \in Axes : \A angle \in Angles :
                 Topology(Store) =
                    Topology(revolve(EmptyStore, call.profile, axis[1], axis[2], angle).store)

\* revolve has run on the empty store with a 2-point profile and a whole
\* turn: ring 1 is the profile turned by a quarter turn
C9_Witness ==
    /\ FirstCall("revolve")
    /\ Len(call.profile) = 2
    /\ call.angle = 4
    /\ call.profile[1].x = 1
    /\ vertex_map[3] = Point3D(3, 0, 1, call.profile[1].z)

\* the edge stored under id joins vertex i of ring s to vertex i of ring s+1
IsStepEdge(id, n, s, i) ==
    /\ id \in DOMAIN edge_map
    /\ edge_map[id] = Edge(1 + s * n + i, 1 + (s + 1) * n + i)

\* the edge stored under id is the edge at index i of ring s
IsRingEdge(id, n, s, i) ==
    /\ id \in DOMAIN edge_map
    /\ edge_map[id] = Edge(1 + s * n + i, 1 + s * n + ((i + 1) % n))

\* C10: after revolve on an empty store with an n-point profile, face 1
\* lists the first ring's edges 1..n, and the side face of step s and index i
\* (face 2 + s*n + i) lists exactly two longitudinal edges, those of ring s
\* to ring s+1 at indices i and (i+1) mod n, and two ring edges, the edge at
\* index i of ring s and of ring s+1.
C10_RevolveFaces ==
    (FirstCall("revolve") /\ Len(call.profile) >= 1) =>
        LET n == Len(call.profile)
        IN /\ 1 \in DOMAIN face_map
           /\ face_map[1].edge_ids = [k \in 1..n |-> k]
           /\ \A s \in 0..3 : \A i \in 0..(n - 1) :
                 /\ (2 + s * n + i) \in DOMAIN face_map
                 /\ LET ids == face_map[2 + s * n + i].edge_ids
                    IN /\ Len(ids) = 4
                       /\ Cardinality({k \in 1..4 :
                              \/ IsStepEdge(ids[k], n, s, i)
                              \/ IsStepEdge(ids[k], n, s, (i + 1) % n)}) = 2
                       /\ Cardinality({k \in 1..4 :
                              \/ IsRingEdge(ids[k], n, s, i)
                              \/ IsRingEdge(ids[k], n, s + 1, i)}) = 2

\* positions of the edges whose unordered endpoint pair is that of an edge
\* earlier in the iteration sequence
RepeatedEdges ==
    {k \in 1..Len(edges) :
        \E j \in 1..(k - 1) :
            {edges[j].start_id, edges[j].end_id} = {edges[k].start_id, edges[k].end_id}}

OpposedFaces ==
    {k \in 2..Len(faces) :
        /\ Len(faces[k].edge_ids) > 0
        /\ DotNum(calculateFaceNormal(faces[1], Store),
                  calculateFaceNormal(faces[k], Store)) < 0}

\* C12: detectNormalInconsistencies takes the calculateFaceNormal result of
\* the first face as reference and returns the 1-based iteration position of
\* every subsequent face whose own calculateFaceNormal result has a negative
\* dot product with that reference.
C12_NormalInconsistencies ==
    (/\ call.op = "detectNormalInconsistencies"
     /\ Len(faces) > 0
     /\ Len(faces[1].edge_ids) > 0) =>
        /\ Len(ret) = Cardinality(OpposedFaces)
        /\ \A m \in 1..Len(ret) :
              ret[m] = CHOOSE k \in OpposedFaces :
                           Cardinality({j \in OpposedFaces : j < k}) = m - 1


\* C13: detectAllTopologyErrors returns true exactly when at least one of
\* detectDuplicateEdges, detectDuplicateFaces and detectNormalInconsistencies
\* returns a non-empty list on the same store; on an empty store all three
\* return the empty list and detectAllTopologyErrors returns false.
C13_AnyError ==
    call.op = "detectAllTopologyErrors" =>
        /\ ret = (\/ detectDuplicateEdges(Store) # <<>>
                  \/ detectDuplicateFaces(Store) # <<>>
                  \/ detectNormalInconsistencies(Store) # <<>>)
        /\ Store = EmptyStore =>
              /\ detectDuplicateEdges(Store) = <<>>
              /\ detectDuplicateFaces(Store) = <<>>
              /\ detectNormalInconsistencies(Store) = <<>>
              /\ ret = FALSE

\* the full analysis reports an error on a store where only the face analysis
\* finds something
C13_Witness ==
    /\ call.op = "detectAllTopologyErrors"
    /\ ret = TRUE
    /\ detectDuplicateEdges(Store) = <<>>
    /\ detectDuplicateFaces(Store) # <<>>
    /\ detectNormalInconsistencies(Store) = <<>>


\* a map keeps every entry it has
MapKept(m, n) == \A id \in DOMAIN m : id \in DOMAIN n /\ n[id] = m[id]

\* an iteration sequence keeps every entry it has, at its position
SeqKept(v, w) == Len(v) <= Len(w) /\ SubSeq(w, 1, Len(v)) = v

\* C14: across any sequence of addVertex, addEdge, addFace, extrude, revolve
\* and analysis calls the store only grows: every call leaves each stored
\* entity under the same id with the same fields and at the same position of
\* its iteration sequence, and no count decreases.
C14_StoreOnlyGrows ==
    [][/\ MapKept(vertex_map, vertex_map')
       /\ MapKept(edge_map, edge_map')
       /\ MapKept(face_map, face_map')
       /\ SeqKept(vertices, vertices')
       /\ SeqKept(edges, edges')
       /\ SeqKept(faces, faces')
       /\ Cardinality(DOMAIN vertex_map) <= Cardinality(DOMAIN vertex_map')
       /\ Cardinality(DOMAIN edge_map) <= Cardinality(DOMAIN edge_map')
       /\ Cardinality(DOMAIN face_map) <= Cardinality(DOMAIN face_map')]_vars

\* a face was added behind the faces of an earlier sweep
C14_Witness ==
    /\ nops = 2
    /\ call.op = "addFace"
    /\ ret # NULL
    /\ Len(faces) > 3
    /\ faces[Len(faces)] = ret[1]
    /\ faces[Len(faces)] # faces[1]
    /\ face_map[call.id] = ret[1]


\* the iteration sequence v holds exactly one entry per id of the map m: each
\* entity occurs in v as often as ids of m hold it
OnePerId(v, m) ==
    /\ Len(v) = Cardinality(DOMAIN m)
    /\ \A e \in {v[k] : k \in 1..Len(v)} \cup {m[id] : id \in DOMAIN m} :
          Cardinality({k \in 1..Len(v) : v[k] = e}) =
          Cardinality({id \in DOMAIN m : m[id] = e})

\* C15: in every reachable store state the start_id and end_id of every
\* stored edge are ids of stored vertices, every edge id listed by a stored
\* face is the id of a stored edge, and each iteration sequence holds exactly
\* one entry per id of the corresponding id map.
C15_ReferentialValidity ==
    /\ \A id \in DOMAIN edge_map :
          /\ edge_map[id].start_id \in DOMAIN vertex_map
          /\ edge_map[id].end_id \in DOMAIN vertex_map
    /\ \A k \in 1..Len(edges) :
          /\ edges[k].start_id \in DOMAIN vertex_map
          /\ edges[k].end_id \in DOMAIN vertex_map
    /\ \A id \in DOMAIN face_map :
          \A j \in 1..Len(face_map[id].edge_ids) :
              face_map[id].edge_ids[j] \in DOMAIN edge_map
    /\ \A k \in 1..Len(faces) :
          \A j \in 1..Len(faces[k].edge_ids) :
              faces[k].edge_ids[j] \in DOMAIN edge_map
    /\ OnePerId(vertices, vertex_map)
    /\ OnePerId(edges, edge_map)
    /\ OnePerId(faces, face_map)

\* a store built by a sweep and a direct addEdge between two of its vertices,
\* holding vertices, edges and faces
C15_Witness ==
    /\ call.op = "addEdge"
    /\ ret # NULL
    /\ call.start_id # call.end_id
    /\ Len(vertices) > 1
    /\ Len(edges) > 3
    /\ edges[Len(edges)] = ret[1]
    /\ Len(faces) > 2


\* C16: after extrude on an empty store with a profile of n >= 3 points every
\* side face 3+i is bounded by its own four corners: the endpoints of all four
\* edges it lists are among base vertex i, base vertex (i+1) mod n, top
\* vertex i and top vertex (i+1) mod n.
C16_SideFaceCorners ==
    (FirstCall("extrude") /\ Len(call.profile) >= 3) =>
        LET n == Len(call.profile)
        IN \A i \in 0..(n - 1) :
              LET corners == {1 + i, 1 + ((i + 1) % n),
                              n + 1 + i, n + 1 + ((i + 1) % n)}
              IN \A j \in 1..Len(faces[3 + i].edge_ids) :
                    /\ edge_map[faces[3 + i].edge_ids[j]].start_id \in corners
                    /\ edge_map[faces[3 + i].edge_ids[j]].end_id \in corners

====
